---------------------------- MODULE Spec2Model ----------------------------
(***************************************************************************)
(* keyball44-viz: the layer parser (parse_layers and its key splitter),   *)
(* the key classifier (get_key_class) and the SVG layout (generate_svg)   *)
(* of src/src/lib.rs, and main's pipeline of src/src/main.rs.             *)
(*                                                                         *)
(* Text is modelled as TLA+ strings; a character is a string of length 1. *)
(* Offsets are 0-based byte offsets as in Rust (the model's text is ASCII, *)
(* one byte per character).                                                *)
(***************************************************************************)
EXTENDS Integers, Sequences, FiniteSets, TLC

VARIABLES
    pc,           \* position of the running call
    line,         \* parse_layers: the line the for loop read last
    layers,       \* parse_layers: let mut layers
    in_keymaps,   \* parse_layers: let mut in_keymaps
    in_layer,     \* parse_layers: let mut in_layer
    current_keys, \* parse_layers: let mut current_keys
    layer_count,  \* parse_layers: let mut layer_count
    ret,          \* parse_layers: the returned Result (<<>> before the return)
    input,        \* the argument(s) of a function applied on its own
    output,       \* what that function, or generate_svg in main, returned
    shape,        \* history: how far the lines read so far follow the well-formed shape
    blocks,       \* history: the key rows of the well-formed layer blocks closed so far
    cur_block,    \* history: the key rows of the well-formed layer block that is open
    prev          \* history: the parser's locals before it read `line`

vars == <<pc, line, layers, in_keymaps, in_layer, current_keys, layer_count,
          ret, input, output, shape, blocks, cur_block, prev>>

-----------------------------------------------------------------------------
(* Rust's str primitives, as the code uses them *)

None == [tag |-> "None", val |-> 0]
Some(v) == [tag |-> "Some", val |-> v]
\* a panic (an out-of-order slice), as an Option-shaped value and as a class
Panicked == [tag |-> "panic", val |-> 0]
PanickedClass == "<panic>"

CharAt(s, i) == SubSeq(s, i + 1, i + 1)

Slice(s, a, b) == SubSeq(s, a + 1, b)

IsWhitespace(c) == c \in {" ", "\t"}

RECURSIVE trim_start(_)
trim_start(s) ==
    IF Len(s) > 0 /\ IsWhitespace(CharAt(s, 0))
    THEN trim_start(Slice(s, 1, Len(s)))
    ELSE s

RECURSIVE trim_end(_)
trim_end(s) ==
    IF Len(s) > 0 /\ IsWhitespace(CharAt(s, Len(s) - 1))
    THEN trim_end(Slice(s, 0, Len(s) - 1))
    ELSE s

trim(s) == trim_end(trim_start(s))

RECURSIVE trim_end_matches(_, _)
trim_end_matches(s, c) ==
    IF Len(s) > 0 /\ CharAt(s, Len(s) - 1) = c
    THEN trim_end_matches(Slice(s, 0, Len(s) - 1), c)
    ELSE s

starts_with(s, p) == Len(p) <= Len(s) /\ Slice(s, 0, Len(p)) = p

contains(s, p) == \E i \in 0..(Len(s) - Len(p)) : Slice(s, i, i + Len(p)) = p

find(s, c) ==
    LET hits == {i \in 0..(Len(s) - 1) : CharAt(s, i) = c}
    IN  IF hits = {} THEN None
        ELSE Some(CHOOSE i \in hits : \A j \in hits : i <= j)

Digits == <<"0", "1", "2", "3", "4", "5", "6", "7", "8", "9">>

IsDigit(c) == \E d \in 1..10 : Digits[d] = c

DigitValue(c) == (CHOOSE d \in 1..10 : Digits[d] = c) - 1

USIZE_MAX == "18446744073709551615"

RECURSIVE StripZeros(_)
StripZeros(s) ==
    IF Len(s) > 1 /\ CharAt(s, 0) = "0" THEN StripZeros(Slice(s, 1, Len(s))) ELSE s

RECURSIVE DigitsGreater(_, _)
DigitsGreater(a, b) ==
    IF Len(a) = 0 THEN FALSE
    ELSE IF DigitValue(CharAt(a, 0)) # DigitValue(CharAt(b, 0))
         THEN DigitValue(CharAt(a, 0)) > DigitValue(CharAt(b, 0))
         ELSE DigitsGreater(Slice(a, 1, Len(a)), Slice(b, 1, Len(b)))

Overflows(s) ==
    LET sig == StripZeros(s)
    IN  \/ Len(sig) > Len(USIZE_MAX)
        \/ Len(sig) = Len(USIZE_MAX) /\ DigitsGreater(sig, USIZE_MAX)

RECURSIVE DigitsValue(_, _)
DigitsValue(s, acc) ==
    IF Len(s) = 0 THEN acc
    ELSE DigitsValue(Slice(s, 1, Len(s)), acc * 10 + DigitValue(CharAt(s, 0)))

parse_usize(s) ==
    LET body == IF starts_with(s, "+") THEN Slice(s, 1, Len(s)) ELSE s
    IN  IF Len(body) = 0 THEN None
        ELSE IF \E i \in 0..(Len(body) - 1) : ~IsDigit(CharAt(body, i)) THEN None
        ELSE IF Overflows(body) THEN None
        ELSE Some(DigitsValue(body, 0))

RECURSIVE format_usize(_)
format_usize(n) ==
    IF n < 10 THEN Digits[n + 1]
    ELSE format_usize(n \div 10) \o Digits[(n % 10) + 1]

-----------------------------------------------------------------------------
(* is_empty_key and parse_keys_with_parens *)

is_empty_key(key) == \A i \in 0..(Len(key) - 1) : CharAt(key, i) = "_"

PushKey(keys, current_key) ==
    LET key == trim(current_key)
    IN  IF Len(key) > 0 THEN Append(keys, key) ELSE keys

\* mutant: a comma splits whenever no parenthesis is open, also below depth 0
SplitsAt_NotInside(paren_depth) == paren_depth <= 0

\* `if paren_depth == 0`
SplitsAt(paren_depth) == paren_depth = 0

RECURSIVE parse_keys_loop(_, _, _, _)
parse_keys_loop(chars, keys, current_key, paren_depth) ==
    IF Len(chars) = 0
    THEN PushKey(keys, current_key)
    ELSE LET ch == CharAt(chars, 0)
             rest == Slice(chars, 1, Len(chars))
         IN  CASE ch = "(" -> parse_keys_loop(rest, keys, current_key \o ch, paren_depth + 1)
               [] ch = ")" -> parse_keys_loop(rest, keys, current_key \o ch, paren_depth - 1)
               [] ch = "," ->
                    IF SplitsAt(paren_depth)
                    THEN parse_keys_loop(rest, PushKey(keys, current_key), "", paren_depth)
                    ELSE parse_keys_loop(rest, keys, current_key \o ch, paren_depth)
               [] OTHER -> parse_keys_loop(rest, keys, current_key \o ch, paren_depth)

parse_keys_with_parens(l) == parse_keys_loop(trim_end_matches(l, ","), <<>>, "", 0)

-----------------------------------------------------------------------------
(* get_key_class and extract_layer_number *)

SingleArgPrefixes == {"MO(", "TO(", "TG(", "TT(", "OSL(", "DF("}
TwoArgPrefixes == {"LT(", "LM("}
SpecialPrefixes == {"RGB_", "BL_", "RESET", "QK_"}

ArgBetween(key, open, close, trimmed) ==
    IF open = None \/ close = None THEN None
    ELSE LET start == open.val + 1
             end == close.val
         IN  IF start > end THEN Panicked
             ELSE parse_usize(IF trimmed THEN trim(Slice(key, start, end))
                                         ELSE Slice(key, start, end))

extract_layer_number(key) ==
    IF \E p \in SingleArgPrefixes : starts_with(key, p)
    THEN ArgBetween(key, find(key, "("), find(key, ")"), FALSE)
    ELSE IF \E p \in TwoArgPrefixes : starts_with(key, p)
    THEN ArgBetween(key, find(key, "("), find(key, ","), TRUE)
    ELSE None

\* mutant: the layer's own colour is tried before the empty-key rule
get_key_class_LayerFirst(key, layer_index) ==
    IF layer_index > 0 THEN "key key-layer" \o format_usize(layer_index)
    ELSE IF is_empty_key(key) THEN "key key-empty"
    ELSE LET layer_num == extract_layer_number(key)
         IN  IF layer_num = Panicked THEN PanickedClass
             ELSE IF layer_num # None THEN "key key-layer" \o format_usize(layer_num.val)
             ELSE IF \E p \in SpecialPrefixes : starts_with(key, p) THEN "key key-special"
             ELSE "key"

get_key_class(key, layer_index) ==
    IF is_empty_key(key) THEN "key key-empty"
    ELSE IF layer_index = 0
    THEN LET layer_num == extract_layer_number(key)
         IN  IF layer_num = Panicked THEN PanickedClass
             ELSE IF layer_num # None THEN "key key-layer" \o format_usize(layer_num.val)
             ELSE IF \E p \in SpecialPrefixes : starts_with(key, p) THEN "key key-special"
             ELSE "key"
    ELSE "key key-layer" \o format_usize(layer_index)

-----------------------------------------------------------------------------
(* parse_layers *)

DeclMarker == "const uint16_t PROGMEM keymaps"

WordChars == "ABCDEFGHIJKLMNOPQRSTUVWXYZabcdefghijklmnopqrstuvwxyz0123456789_"

IsWordChar(c) == contains(WordChars, c)

\* Regex::new(r"LAYOUT(_\w+)?\s*\(").is_match(s): an unanchored search
layout_regex_is_match(s) ==
    \E i \in 0..(Len(s) - 6) :
        /\ Slice(s, i, i + 6) = "LAYOUT"
        /\ \E j \in (i + 6)..Len(s) :
            /\ \/ j = i + 6
               \/ /\ j >= i + 8
                  /\ CharAt(s, i + 6) = "_"
                  /\ \A k \in (i + 7)..(j - 1) : IsWordChar(CharAt(s, k))
            /\ \E m \in j..(Len(s) - 1) :
                /\ \A k \in j..(m - 1) : IsWhitespace(CharAt(s, k))
                /\ CharAt(s, m) = "("

SkipsLine(trimmed) == starts_with(trimmed, "//") \/ Len(trimmed) = 0

\* mutant: the array-closing marker also ends parsing inside a layer
EndsKeymaps_Nested(trimmed, inLayer) == starts_with(trimmed, "};")

EndsKeymaps(trimmed, inLayer) == starts_with(trimmed, "};") /\ ~inLayer

IsLayerEnd(trimmed) ==
    starts_with(trimmed, "),") \/ trimmed = ")," \/ trimmed = ")"

\* mutant: a layer is emitted whether or not it has rows
CloseLayer_AlwaysEmits(st) ==
    [st EXCEPT !.in_layer = FALSE,
               !.layers = Append(st.layers,
                                 [index |-> st.layer_count, keys |-> st.current_keys]),
               !.current_keys = <<>>,
               !.layer_count = st.layer_count + 1]

\* mutant: the layer counter is not advanced
CloseLayer_NoCount(st) ==
    IF st.current_keys # <<>>
    THEN [st EXCEPT !.in_layer = FALSE,
                    !.layers = Append(st.layers,
                                      [index |-> st.layer_count, keys |-> st.current_keys]),
                    !.current_keys = <<>>]
    ELSE [st EXCEPT !.in_layer = FALSE]

\* the layer-closing branch
CloseLayer(st) ==
    IF st.current_keys # <<>>
    THEN [st EXCEPT !.in_layer = FALSE,
                    !.layers = Append(st.layers,
                                      [index |-> st.layer_count, keys |-> st.current_keys]),
                    !.current_keys = <<>>,
                    !.layer_count = st.layer_count + 1]
    ELSE [st EXCEPT !.in_layer = FALSE]

\* mutant: a line without tokens appends an empty row
PushRow_KeepsEmpty(st, trimmed) ==
    [st EXCEPT !.current_keys = Append(st.current_keys, parse_keys_with_parens(trimmed))]

\* the key-data branch
PushRow(st, trimmed) ==
    LET keys == parse_keys_with_parens(trimmed)
    IN  IF keys # <<>>
        THEN [st EXCEPT !.current_keys = Append(st.current_keys, keys)]
        ELSE st

\* the body of `for line in content.lines()`, on the parser's locals `st`;
\* broke: the iteration left the loop by `break`
parse_line(st, l) ==
    LET trimmed == trim(l)
    IN  IF SkipsLine(trimmed) THEN st
        ELSE LET s1 == IF contains(trimmed, DeclMarker)
                       THEN [st EXCEPT !.in_keymaps = TRUE] ELSE st
             IN  IF ~s1.in_keymaps THEN s1
                 ELSE IF EndsKeymaps(trimmed, s1.in_layer) THEN [s1 EXCEPT !.broke = TRUE]
                 ELSE IF layout_regex_is_match(trimmed) THEN [s1 EXCEPT !.in_layer = TRUE]
                 ELSE IF s1.in_layer /\ IsLayerEnd(trimmed) THEN CloseLayer(s1)
                 ELSE IF s1.in_layer THEN PushRow(s1, trimmed)
                 ELSE s1

Locals ==
    [layers |-> layers, in_keymaps |-> in_keymaps, in_layer |-> in_layer,
     current_keys |-> current_keys, layer_count |-> layer_count, broke |-> FALSE]

-----------------------------------------------------------------------------
(* The input lines the parser is run on, and the well-formed shape of the   *)
(* keymaps array: declaration line, layer blocks (opening line, key lines,  *)
(* closing line), array-closing line.                                       *)

DeclLines == {"const uint16_t PROGMEM keymaps[] = {"}
OpenLines == {"[0] = LAYOUT(", "  LAYOUT_b (A,"}
\* a key line, and the row of tokens it is written to hold
KeyLineRows ==
    {[text |-> "  A, F(1,2),  ", row |-> <<"A", "F(1,2)">>],
     [text |-> "___", row |-> <<"___">>]}
KeyLines == {k.text : k \in KeyLineRows}
CloseLines == {"),", " )"}
EndLines == {"};"}
BlankLines == {"  "}
CommentLines == {"// };"}
OtherLines == {"), A", ", ,", "}; const uint16_t PROGMEM keymaps"}

Lines ==
    DeclLines \cup OpenLines \cup KeyLines \cup CloseLines \cup EndLines
        \cup BlankLines \cup CommentLines \cup OtherLines

RowOf(l) == (CHOOSE k \in KeyLineRows : k.text = l).row

MaxTotalRows == 2

RECURSIVE TotalRows(_)
TotalRows(ls) == IF ls = <<>> THEN 0 ELSE Len(Head(ls).keys) + TotalRows(Tail(ls))

NextShape(sh, l) ==
    IF sh \in {"bad", "ended"} \/ l \in BlankLines \cup CommentLines THEN sh
    ELSE CASE sh = "pre" -> IF l \in DeclLines THEN "array"
                            ELSE IF contains(l, DeclMarker) THEN "bad" ELSE "pre"
           [] sh = "array" -> IF l \in OpenLines THEN "open"
                              ELSE IF l \in EndLines THEN "ended" ELSE "bad"
           [] sh = "open" -> IF l \in KeyLines THEN "rows" ELSE "bad"
           [] sh = "rows" -> IF l \in KeyLines THEN "rows"
                             ELSE IF l \in CloseLines THEN "array" ELSE "bad"

-----------------------------------------------------------------------------
(* generate_svg.  Coordinates are whole numbers of pixels for every input   *)
(* (the f32 arithmetic is exact on them) except a label's: its x is kept    *)
(* doubled (x2) and its baseline tripled (y3).  `at` records where a node   *)
(* comes from: <<position of the layer, row_idx, half, col_idx>>.           *)

KEY_HEIGHT == 60
KEY_SPACING == 5
SPLIT_GAP == 40
LAYER_SPACING == 120
MARGIN == 20
FONT_SIZE == 11
CHAR_WIDTH == 7
KEY_PADDING == 10

layout ==
    <<[left_count |-> 6, left_offset |-> 0, right_count |-> 6, right_offset |-> 0],
      [left_count |-> 6, left_offset |-> 0, right_count |-> 6, right_offset |-> 0],
      [left_count |-> 6, left_offset |-> 0, right_count |-> 6, right_offset |-> 0],
      [left_count |-> 5, left_offset |-> 2, right_count |-> 3, right_offset |-> -1]>>

\* the selectors of the rules of the style block
StyleSelectors ==
    {".key", ".key:hover",
     ".key-layer1", ".key-layer2", ".key-layer3", ".key-layer4",
     ".key-layer5", ".key-layer6", ".key-layer7", ".key-layer8",
     ".key-special", ".key-empty", ".key-text", ".layer-title"}

\* the ids add_gradients defines
GradientIds ==
    {"layer" \o format_usize(idx + 1) \o "Gradient" : idx \in 0..7}
        \cup {"keyGradient", "specialGradient"}

Max(a, b) == IF a >= b THEN a ELSE b
Min(a, b) == IF a <= b THEN a ELSE b

RECURSIVE Flatten(_)
Flatten(ss) == IF ss = <<>> THEN <<>> ELSE Head(ss) \o Flatten(Tail(ss))

AllKeys(ls) == Flatten(Flatten([i \in 1..Len(ls) |-> ls[i].keys]))

max_label_len(ls) ==
    LET keys == AllKeys(ls)
    IN  IF keys = <<>> THEN 8
        ELSE CHOOSE n \in {Len(keys[i]) : i \in 1..Len(keys)} :
                \A i \in 1..Len(keys) : Len(keys[i]) <= n

key_width(ls) == Max(max_label_len(ls) * CHAR_WIDTH + KEY_PADDING * 2, 60)

left_width(kw) == 8 * (kw + KEY_SPACING)
right_width(kw) == 6 * (kw + KEY_SPACING)
svg_width(kw) == MARGIN * 2 + left_width(kw) + SPLIT_GAP + right_width(kw)

RECURSIVE total_height(_)
total_height(ls) ==
    IF ls = <<>> THEN MARGIN
    ELSE total_height(Tail(ls)) + (4 * (KEY_HEIGHT + KEY_SPACING) + 50) + LAYER_SPACING

\* "Draw key" and "Draw key label"
KeyNodes(key, layer_index, x, y, kw, at) ==
    <<[tag |-> "rect", class |-> get_key_class(key, layer_index),
       x |-> x, y |-> y, width |-> kw, height |-> KEY_HEIGHT, rx |-> 5, at |-> at],
      [tag |-> "text", class |-> "key-text",
       x2 |-> 2 * x + kw, y3 |-> 3 * y + 3 * (KEY_HEIGHT \div 2) + FONT_SIZE,
       text |-> key, at |-> at]>>

\* mutant: empty keys are left out of the right half of rows 0-2 instead
DrawsRightKey_NonBottom(key, row_idx) == ~is_empty_key(key) \/ row_idx >= 3

\* the right half's `if !is_empty_key(key) || row_idx < 3`
DrawsRightKey(key, row_idx) == ~is_empty_key(key) \/ row_idx < 3

LeftX(g, col_idx, kw) ==
    MARGIN + g.left_offset * (kw + KEY_SPACING) + col_idx * (kw + KEY_SPACING)

right_base_x(kw) == MARGIN + left_width(kw) + SPLIT_GAP

RightX(g, col_idx, kw) ==
    right_base_x(kw) + g.right_offset * (kw + KEY_SPACING) + col_idx * (kw + KEY_SPACING)

RemainingX(g, offset, kw) ==
    right_base_x(kw) + (g.right_count + offset) * (kw + KEY_SPACING)

\* one iteration of `for (row_idx, row) in layer.keys.iter().enumerate()`
DrawRow(row, row_idx, p, layer_index, y_offset, kw) ==
    IF row_idx >= Len(layout) THEN <<>>
    ELSE LET g == layout[row_idx + 1]
             y == y_offset + row_idx * (KEY_HEIGHT + KEY_SPACING)
             right_start_idx == g.left_count
             remaining_start == right_start_idx + g.right_count
             left == [c \in 1..Min(g.left_count, Len(row)) |->
                        KeyNodes(row[c], layer_index, LeftX(g, c - 1, kw), y, kw,
                                 <<p, row_idx, "left", c - 1>>)]
             right == [c \in 1..Min(g.right_count, Max(Len(row) - right_start_idx, 0)) |->
                        IF DrawsRightKey(row[right_start_idx + c], row_idx)
                        THEN KeyNodes(row[right_start_idx + c], layer_index,
                                      RightX(g, c - 1, kw), y, kw,
                                      <<p, row_idx, "right", c - 1>>)
                        ELSE <<>>]
             remaining == [c \in 1..Max(Len(row) - remaining_start, 0) |->
                        KeyNodes(row[remaining_start + c], layer_index,
                                 RemainingX(g, c - 1, kw), y, kw,
                                 <<p, row_idx, "remaining", c - 1>>)]
         IN  Flatten(left) \o Flatten(right) \o Flatten(remaining)

\* `for layer in layers`, from the layer at position p (0-based) on
RECURSIVE DrawLayers(_, _, _, _)
DrawLayers(ls, p, y_offset, kw) ==
    IF p >= Len(ls) THEN <<>>
    ELSE LET layer == ls[p + 1]
             title == [tag |-> "text", class |-> "layer-title",
                       x2 |-> 2 * MARGIN, y3 |-> 3 * y_offset,
                       text |-> "Layer " \o format_usize(layer.index),
                       at |-> <<p, 0, "title", 0>>]
             y0 == y_offset + 40
             rows == [r \in 1..Len(layer.keys) |->
                        DrawRow(layer.keys[r], r - 1, p, layer.index, y0, kw)]
         IN  <<title>> \o Flatten(rows)
                 \o DrawLayers(ls, p + 1,
                               y0 + 4 * (KEY_HEIGHT + KEY_SPACING) + LAYER_SPACING, kw)

generate_svg(ls) ==
    LET kw == key_width(ls)
    IN  [width |-> svg_width(kw),
         height |-> total_height(ls),
         viewBox |-> <<0, 0, svg_width(kw), total_height(ls)>>,
         background |-> [width |-> "100%", height |-> "100%", fill |-> "#faf8f3"],
         style |-> StyleSelectors,
         defs |-> GradientIds,
         nodes |-> DrawLayers(ls, 0, MARGIN, kw)]

-----------------------------------------------------------------------------
(* main: parse_layers, then generate_svg *)

\* `line` before the loop has read any line
NoLine == ""

Init ==
    /\ pc = "loop"
    /\ line = NoLine
    /\ layers = <<>>
    /\ in_keymaps = FALSE
    /\ in_layer = FALSE
    /\ current_keys = <<>>
    /\ layer_count = 0
    /\ ret = <<>>
    /\ input = <<>>
    /\ output = <<>>
    /\ shape = "pre"
    /\ blocks = <<>>
    /\ cur_block = <<>>
    /\ prev = Locals

\* one iteration of the for loop, on the next line of the content
ParseLine(l) ==
    /\ pc = "loop"
    /\ LET st == parse_line(Locals, l)
           sh == NextShape(shape, l)
       IN  /\ TotalRows(st.layers) + Len(st.current_keys) <= MaxTotalRows
           /\ line' = l
           /\ prev' = Locals
           /\ layers' = st.layers
           /\ in_keymaps' = st.in_keymaps
           /\ in_layer' = st.in_layer
           /\ current_keys' = st.current_keys
           /\ layer_count' = st.layer_count
           /\ pc' = IF st.broke THEN "broke" ELSE "loop"
           /\ shape' = sh
           /\ blocks' = IF sh = "bad" THEN <<>>
                        ELSE IF shape = "rows" /\ sh = "array" THEN Append(blocks, cur_block)
                        ELSE blocks
           /\ cur_block' = IF sh = "rows" /\ l \in KeyLines THEN Append(cur_block, RowOf(l))
                           ELSE IF sh = "rows" THEN cur_block
                           ELSE <<>>
    /\ UNCHANGED <<ret, input, output>>

\* mutant: the rows of a layer still open at the end are emitted too
Return_Flush ==
    /\ pc \in {"loop", "broke"}
    /\ ret' = [ok |-> TRUE,
               layers |-> IF current_keys # <<>>
                          THEN Append(layers, [index |-> layer_count, keys |-> current_keys])
                          ELSE layers]
    /\ pc' = "returned"
    /\ UNCHANGED <<line, layers, in_keymaps, in_layer, current_keys, layer_count,
                   input, output, shape, blocks, cur_block, prev>>

\* the loop is over (the content is exhausted, or `break`): Ok(layers)
Return ==
    /\ pc \in {"loop", "broke"}
    /\ ret' = [ok |-> TRUE, layers |-> layers]
    /\ pc' = "returned"
    /\ UNCHANGED <<line, layers, in_keymaps, in_layer, current_keys, layer_count,
                   input, output, shape, blocks, cur_block, prev>>

\* main: let svg = generate_svg(&layers)
Render ==
    /\ pc = "returned"
    /\ output' = generate_svg(ret.layers)
    /\ pc' = "rendered"
    /\ UNCHANGED <<line, layers, in_keymaps, in_layer, current_keys, layer_count,
                   ret, input, shape, blocks, cur_block, prev>>

Next ==
    \/ \E l \in Lines : ParseLine(l)
    \/ Return
    \/ Render

Spec == Init /\ [][Next]_vars

-----------------------------------------------------------------------------
(* The functions applied on their own, to arguments drawn from bounded sets *)

RECURSIVE StringsOver(_, _)
StringsOver(alphabet, n) ==
    IF n = 0 THEN {""}
    ELSE LET shorter == StringsOver(alphabet, n - 1)
         IN  shorter \cup {s \o c : s \in shorter, c \in alphabet}

Idle ==
    /\ line = NoLine
    /\ layers = <<>>
    /\ in_keymaps = FALSE
    /\ in_layer = FALSE
    /\ current_keys = <<>>
    /\ layer_count = 0
    /\ ret = <<>>
    /\ output = <<>>
    /\ shape = "pre"
    /\ blocks = <<>>
    /\ cur_block = <<>>
    /\ prev = Locals

Apply(fn, result) ==
    /\ pc = fn
    /\ output' = result
    /\ pc' = "done"
    /\ UNCHANGED <<line, layers, in_keymaps, in_layer, current_keys, layer_count,
                   ret, input, shape, blocks, cur_block, prev>>

\* parse_keys_with_parens(line)
MaxLineLen == 5
SplitAlphabet == {"A", "(", ")", ",", " "}
SplitLines == StringsOver(SplitAlphabet, MaxLineLen) \cup {"A(1,2),B,C(3)"}

InitKeys ==
    /\ pc = "parse_keys_with_parens"
    /\ input \in {[line |-> l] : l \in SplitLines}
    /\ Idle

ApplyKeys == Apply("parse_keys_with_parens", parse_keys_with_parens(input.line))

SpecKeys == InitKeys /\ [][ApplyKeys]_vars

\* get_key_class(key, layer_index)
MaxArgLen == 3
ArgAlphabet == {"0", "1", "+", " ", ",", ")", "_"}
KeyPrefixes ==
    SingleArgPrefixes \cup TwoArgPrefixes \cup SpecialPrefixes \cup {"", "KC_"}
ClassKeys ==
    {p \o a : p \in KeyPrefixes, a \in StringsOver(ArgAlphabet, MaxArgLen)}
        \cup {"_______", "MO(1)", "LT(2,KC_A)", "RGB_TOG", "KC_A",
              "MO(18446744073709551616)"}
ClassLayerIndexes == {0, 1, 12}

InitClass ==
    /\ pc = "get_key_class"
    /\ input \in {[key |-> k, layer_index |-> i] : k \in ClassKeys, i \in ClassLayerIndexes}
    /\ Idle

ApplyClass == Apply("get_key_class", get_key_class(input.key, input.layer_index))

SpecClass == InitClass /\ [][ApplyClass]_vars

\* generate_svg(layers): the layers have consecutive indexes from 0, as
\* parse_layers returns them, and hold rows of one length, all of the token
\* `fill` but for the token `hot` in one column
MaxLayers == 2
MaxRows == 5
MaxRowLen == 13
HotTokens == {"___", "A", "MO(1)", "MO(9)", "RGB_TOG"}
FillTokens == {"A", "___"}

KeyRow(n, col, hot, fill) == [c \in 1..n |-> IF c = col THEN hot ELSE fill]

SvgLayers ==
    {[p \in 1..nl |-> [index |-> p - 1, keys |-> [r \in 1..nr |-> KeyRow(n, col, hot, fill)]]] :
        nl \in 0..MaxLayers, nr \in 0..MaxRows,
        n \in 0..MaxRowLen, col \in 1..MaxRowLen, hot \in HotTokens, fill \in FillTokens}

InitSvg ==
    /\ pc = "generate_svg"
    /\ input \in {[layers |-> ls] : ls \in SvgLayers}
    /\ Idle

ApplySvg == Apply("generate_svg", generate_svg(input.layers))

SpecSvg == InitSvg /\ [][ApplySvg]_vars

-----------------------------------------------------------------------------
(* Properties of parse_layers.  In a state with line # NoLine, `prev` holds *)
(* the parser's locals before `line` was read and the variables hold them   *)
(* after, so a state predicate over both describes one loop iteration.      *)

Returned == pc \in {"returned", "rendered"}

LineRead == line # NoLine

Trimmed == trim(line)

\* C1: when the lines read are a declaration line, N layer blocks (opening
\* line, one or more key lines, closing line) and the array-closing line,
\* parse_layers returns exactly N layers, the i-th with index i-1 and with the
\* rows of the i-th block in source order.
C1_WellFormedInput ==
    (Returned /\ shape = "ended") =>
        /\ ret.ok
        /\ Len(ret.layers) = Len(blocks)
        /\ \A i \in 1..Len(blocks) :
            /\ ret.layers[i].index = i - 1
            /\ ret.layers[i].keys = blocks[i]

C1_Witness ==
    /\ pc = "returned"
    /\ shape = "ended"
    /\ Len(blocks) = 2
    /\ Len(ret.layers) = 2

\* C2: after any sequence of lines, the layer at position i has index i, every
\* layer has a row and every row a token; closing a layer block that has no
\* rows emits nothing and consumes no index.
C2_LayersContiguous ==
    /\ \A i \in 1..Len(layers) :
        /\ layers[i].index = i - 1
        /\ layers[i].keys # <<>>
        /\ \A r \in 1..Len(layers[i].keys) : layers[i].keys[r] # <<>>
    /\ (LineRead /\ prev.in_layer /\ ~in_layer /\ prev.current_keys = <<>>) =>
        /\ layers = prev.layers
        /\ layer_count = prev.layer_count

C2_Witness ==
    /\ LineRead
    /\ prev.in_layer
    /\ ~in_layer
    /\ prev.current_keys = <<>>
    /\ Len(layers) = 1
    /\ layer_count = 1

\* C3: a non-comment line starting with `};` ends parsing if and only if the
\* declaration marker has been seen (on an earlier line or on this one) and
\* the parser is not inside a layer; once it has, no line is read any more and
\* the layers collected are the result.
C3_ArrayCloseEndsParsing ==
    [][/\ (pc = "loop" /\ pc' \in {"loop", "broke"}) =>
            (pc' = "broke" <=>
                LET t == trim(line')
                IN  /\ Len(t) > 0
                    /\ ~starts_with(t, "//")
                    /\ starts_with(t, "};")
                    /\ in_keymaps \/ contains(t, DeclMarker)
                    /\ ~in_layer)
       /\ pc = "broke" =>
            /\ pc' = "returned"
            /\ layers' = layers
            /\ ret' = [ok |-> TRUE, layers |-> layers]]_vars

C3_Witness ==
    /\ pc = "broke"
    /\ starts_with(Trimmed, "};")
    /\ prev.in_keymaps
    /\ layers # <<>>

ClosingLine(t) ==
    ~layout_regex_is_match(t) /\ (starts_with(t, "),") \/ t = ")")

\* C4: parse_layers returns Ok, and the layers returned are exactly those whose
\* closing line was read inside a layer with rows: none when no line held the
\* declaration marker, and the rows of a layer still open at the end of the
\* input are not emitted.
C4_OnlyClosedLayers ==
    /\ Returned => ret = [ok |-> TRUE, layers |-> layers]
    /\ shape = "pre" => layers = <<>>
    /\ LineRead =>
        IF prev.in_layer /\ prev.current_keys # <<>> /\ Len(Trimmed) > 0
              /\ ~starts_with(Trimmed, "//") /\ ClosingLine(Trimmed)
        THEN layers = Append(prev.layers,
                             [index |-> Len(prev.layers), keys |-> prev.current_keys])
        ELSE layers = prev.layers

C4_Witness ==
    /\ pc = "returned"
    /\ in_layer
    /\ current_keys # <<>>
    /\ Len(ret.layers) = 1

Tokenized(t) ==
    /\ in_layer
    /\ layers = prev.layers
    /\ current_keys =
        IF parse_keys_with_parens(t) # <<>>
        THEN Append(prev.current_keys, parse_keys_with_parens(t))
        ELSE prev.current_keys

InLayerLine ==
    LineRead /\ prev.in_layer /\ Len(Trimmed) > 0 /\ ~starts_with(Trimmed, "//")

\* C9 as stated: inside a layer, a non-blank, non-comment line closes the layer
\* if, trimmed, it is exactly `),` or `)`, and every other such line is
\* tokenized and, if it has a token, appends exactly one row.
C9_Original ==
    InLayerLine =>
        IF Trimmed \in {"),", ")"} THEN ~in_layer ELSE Tokenized(Trimmed)

\* C9 amended: inside a layer, a non-blank, non-comment line that matches the
\* layout-macro pattern is dropped and leaves the layer open; any other line
\* that, trimmed, starts with `),` or is exactly `)` closes the layer; every
\* remaining line is tokenized and, if it has a token, appends exactly one row.
C9_Amended ==
    InLayerLine =>
        IF layout_regex_is_match(Trimmed)
        THEN in_layer /\ layers = prev.layers /\ current_keys = prev.current_keys
        ELSE IF starts_with(Trimmed, "),") \/ Trimmed = ")"
        THEN ~in_layer /\ current_keys = <<>>
        ELSE Tokenized(Trimmed)

C9_Witness ==
    /\ InLayerLine
    /\ starts_with(Trimmed, "),")
    /\ Trimmed \notin {"),", ")"}
    /\ ~in_layer
    /\ layers # prev.layers

-----------------------------------------------------------------------------
(* Properties of parse_keys_with_parens, under SpecKeys *)

ParenDepthAt(s, i) ==
    Cardinality({j \in 0..(i - 1) : CharAt(s, j) = "("})
        - Cardinality({j \in 0..(i - 1) : CharAt(s, j) = ")"})

TopLevelCommas(s) ==
    {i \in 0..(Len(s) - 1) : CharAt(s, i) = "," /\ ParenDepthAt(s, i) = 0}

NthComma(s, k) ==
    CHOOSE c \in TopLevelCommas(s) : Cardinality({d \in TopLevelCommas(s) : d < c}) = k - 1

Segment(s, k) ==
    LET from == IF k = 1 THEN 0 ELSE NthComma(s, k - 1) + 1
        to == IF k = Cardinality(TopLevelCommas(s)) + 1 THEN Len(s) ELSE NthComma(s, k)
    IN  Slice(s, from, to)

Stripped(t) ==
    LET solid == {i \in 0..(Len(t) - 1) : ~IsWhitespace(CharAt(t, i))}
    IN  IF solid = {} THEN ""
        ELSE Slice(t, CHOOSE i \in solid : \A j \in solid : i <= j,
                      (CHOOSE i \in solid : \A j \in solid : i >= j) + 1)

HasText(t) == Len(t) > 0

WithoutTrailingCommas(l) ==
    LET e == CHOOSE e \in 0..Len(l) :
                /\ \A j \in e..(Len(l) - 1) : CharAt(l, j) = ","
                /\ e = 0 \/ CharAt(l, e - 1) # ","
    IN  Slice(l, 0, e)

ExpectedKeys(l) ==
    LET s == WithoutTrailingCommas(l)
    IN  SelectSeq([k \in 1..(Cardinality(TopLevelCommas(s)) + 1) |-> Stripped(Segment(s, k))],
                  HasText)

\* C5: parse_keys_with_parens returns, in order, the non-empty trimmed segments
\* of the line (its trailing commas stripped) between the commas at paren-depth
\* 0; a comma at any other depth, positive or negative, stays in its token; no
\* token is empty or has whitespace around it.
C5_SplitsAtDepthZero ==
    pc = "done" =>
        /\ output = ExpectedKeys(input.line)
        /\ \A k \in 1..Len(output) :
            /\ Len(output[k]) > 0
            /\ ~IsWhitespace(CharAt(output[k], 0))
            /\ ~IsWhitespace(CharAt(output[k], Len(output[k]) - 1))

C5_Witness ==
    /\ pc = "done"
    /\ input.line = "A(1,2),B,C(3)"
    /\ output = <<"A(1,2)", "B", "C(3)">>

-----------------------------------------------------------------------------
(* Properties of get_key_class, under SpecClass *)

\* the text of the layer-switch argument of a key: up to the first `)` after a
\* single-argument prefix, up to the first `,` (trimmed) after a two-argument one
SwitchArguments(key) ==
    {Slice(key, Len(p), e) :
        <<p, e>> \in {<<p, e>> \in SingleArgPrefixes \X (0..Len(key)) :
            /\ starts_with(key, p)
            /\ e >= Len(p) /\ e < Len(key)
            /\ CharAt(key, e) = ")"
            /\ \A j \in Len(p)..(e - 1) : CharAt(key, j) # ")"}}
    \cup
    {Stripped(Slice(key, Len(p), e)) :
        <<p, e>> \in {<<p, e>> \in TwoArgPrefixes \X (0..Len(key)) :
            /\ starts_with(key, p)
            /\ e >= Len(p) /\ e < Len(key)
            /\ CharAt(key, e) = ","
            /\ \A j \in Len(p)..(e - 1) : CharAt(key, j) # ","}}

ReferencedLayers(key) ==
    {parse_usize(a).val : a \in {b \in SwitchArguments(key) : parse_usize(b).tag = "Some"}}

ExpectedClass(key, layer_index) ==
    IF \A i \in 0..(Len(key) - 1) : CharAt(key, i) = "_" THEN "key key-empty"
    ELSE IF layer_index > 0 THEN "key key-layer" \o format_usize(layer_index)
    ELSE IF ReferencedLayers(key) # {}
    THEN "key key-layer" \o format_usize(CHOOSE n \in ReferencedLayers(key) : TRUE)
    ELSE IF \E p \in {"RGB_", "BL_", "RESET", "QK_"} : starts_with(key, p)
    THEN "key key-special"
    ELSE "key"

\* C6: get_key_class never fails and applies its rules in order: an
\* all-underscore token is empty on every layer; on layer 0 a token whose
\* layer-switch argument parses as the unsigned integer N is layer N's, one
\* whose argument is missing or no integer falls through, a token with a
\* special-function prefix is special, anything else normal; on a layer > 0
\* every non-empty token has the layer's own class.
C6_ClassRules ==
    pc = "done" =>
        /\ output # PanickedClass
        /\ output = ExpectedClass(input.key, input.layer_index)

C6_Witness ==
    /\ pc = "done"
    /\ input.layer_index = 0
    /\ starts_with(input.key, "MO(")
    /\ SwitchArguments(input.key) = {" 1"}
    /\ output = "key"

-----------------------------------------------------------------------------
(* Properties of generate_svg, under SpecSvg *)

Nodes == output.nodes

\* the half and the column in it of the c-th token (from 0) of geometry row r
PlaceOf(r, c) ==
    LET g == layout[r + 1]
    IN  IF c < g.left_count THEN <<"left", c>>
        ELSE IF c < g.left_count + g.right_count THEN <<"right", c - g.left_count>>
        ELSE <<"remaining", c - g.left_count - g.right_count>>

\* the tokens of the geometry rows: <<layer position, row, column>>, from 0
KeyPositions ==
    {<<p, r, c>> \in (0..(Len(input.layers) - 1)) \X (0..3) \X (0..(MaxRowLen + 1)) :
        /\ r < Len(input.layers[p + 1].keys)
        /\ c < Len(input.layers[p + 1].keys[r + 1])}

KeyAt(pos) == input.layers[pos[1] + 1].keys[pos[2] + 1][pos[3] + 1]

AtOf(pos) == <<pos[1], pos[2]>> \o PlaceOf(pos[2], pos[3])

\* the token has a rectangle and a label in the document
Drawn(pos) ==
    /\ \E i \in 1..Len(Nodes) : Nodes[i].tag = "rect" /\ Nodes[i].at = AtOf(pos)
    /\ \E i \in 1..Len(Nodes) :
        Nodes[i].tag = "text" /\ Nodes[i].at = AtOf(pos) /\ Nodes[i].text = KeyAt(pos)

EmptyKeyPositions == {pos \in KeyPositions : is_empty_key(KeyAt(pos))}

\* C7 as stated: an empty key is left out only in the right half of a row 0-2;
\* in the right half of row 3 and in the left half it always has a rectangle
\* and a label.
C7_Original ==
    pc = "done" =>
        \A pos \in EmptyKeyPositions :
            LET half == PlaceOf(pos[2], pos[3])[1]
            IN  /\ ~Drawn(pos) => (half = "right" /\ pos[2] <= 2)
                /\ (half = "right" /\ pos[2] = 3) => Drawn(pos)
                /\ half = "left" => Drawn(pos)

\* C7 amended: an empty key is left out only, and always, in the right half of
\* the bottom row (row 3); in the right half of rows 0-2, in the left half and
\* beyond the right half it always has a rectangle and a label.
C7_Amended ==
    pc = "done" =>
        \A pos \in EmptyKeyPositions :
            Drawn(pos) <=> ~(PlaceOf(pos[2], pos[3])[1] = "right" /\ pos[2] = 3)

C7_Witness ==
    /\ pc = "done"
    /\ \E pos \in EmptyKeyPositions :
        /\ PlaceOf(pos[2], pos[3])[1] = "right" /\ pos[2] = 3 /\ ~Drawn(pos)
    /\ \E pos \in EmptyKeyPositions :
        /\ PlaceOf(pos[2], pos[3])[1] = "right" /\ pos[2] = 0 /\ Drawn(pos)

RECURSIVE ClassNames(_)
ClassNames(class) ==
    LET sp == find(class, " ")
    IN  IF sp = None THEN {class} \ {""}
        ELSE ({Slice(class, 0, sp.val)} \ {""})
                \cup ClassNames(Slice(class, sp.val + 1, Len(class)))

\* C8: every class name on a key rectangle has a rule in the style block of
\* the same document.
C8_EveryClassHasRule ==
    pc = "done" =>
        \A i \in 1..Len(Nodes) :
            Nodes[i].tag = "rect" =>
                \A name \in ClassNames(Nodes[i].class) : ("." \o name) \in output.style

\* C10: in each of the 4 geometry rows, the first token beyond the row's
\* left+right count is drawn on the row's baseline in the cell right after the
\* last right-half key, and the tokens after it in the cells that follow.
C10_RemainingContiguous ==
    pc = "done" =>
        \A i, j \in 1..Len(Nodes) :
            LET n == Nodes[i]
                m == Nodes[j]
            IN  (/\ n.tag = "rect" /\ m.tag = "rect"
                 /\ n.at[3] = "remaining"
                 /\ m.at[1] = n.at[1] /\ m.at[2] = n.at[2]
                 /\ \/ n.at[4] = 0 /\ m.at[3] = "right"
                          /\ m.at[4] = layout[n.at[2] + 1].right_count - 1
                    \/ n.at[4] > 0 /\ m.at[3] = "remaining" /\ m.at[4] = n.at[4] - 1)
                => (n.y = m.y /\ n.x = m.x + m.width + KEY_SPACING)

\* the canvas the claim describes, for keys of width kw and n layers
ClaimedWidth(kw) == 2 * MARGIN + 8 * (kw + KEY_SPACING) + SPLIT_GAP + 6 * (kw + KEY_SPACING)
ClaimedHeight(n) == MARGIN + n * (4 * (KEY_HEIGHT + KEY_SPACING) + 50 + 120)
ClaimedAdvance == 40 + 4 * (KEY_HEIGHT + KEY_SPACING) + 120

\* the document declares the claimed canvas, and each layer's title sits where
\* the vertical cursor stands after the claimed advance per layer before it
CanvasAsClaimed ==
    /\ output.width = ClaimedWidth(key_width(input.layers))
    /\ output.height = ClaimedHeight(Len(input.layers))
    /\ output.viewBox = <<0, 0, output.width, output.height>>
    /\ \A i \in 1..Len(Nodes) :
        Nodes[i].class = "layer-title" =>
            Nodes[i].y3 = 3 * (MARGIN + Nodes[i].at[1] * ClaimedAdvance)

InsideCanvas(n) ==
    /\ 0 <= n.x
    /\ n.x + n.width <= output.width
    /\ 0 <= n.y
    /\ n.y + n.height <= output.height

\* C11: for every layer sequence the canvas is 2*margin + 8 cells + split gap
\* + 6 cells wide and margin + layer_count * (4*(key_height+spacing) + 50 + 120)
\* high, the vertical cursor advances by 40 + 4*(key_height+spacing) + 120 per
\* layer, and every key rectangle lies entirely inside that canvas.
C11_RectsInsideCanvas ==
    pc = "done" =>
        /\ CanvasAsClaimed
        /\ \A i \in 1..Len(Nodes) : Nodes[i].tag = "rect" => InsideCanvas(Nodes[i])

=============================================================================
